---- MODULE Spec2Model ----
(***************************************************************************)
(* Model of the AI Output Validation Service (app/validation.py,           *)
(* app/ai_agent.py, app/main.py, app/api/routes/schemas.py).               *)
(*                                                                         *)
(* A validation call is a sequence of steps of one handler: schema         *)
(* compilation, structural validation, the semantic step (which may        *)
(* suspend on the remote agent.run call) and the aggregation of the        *)
(* verdict.  The only state shared between calls is the module global      *)
(* _validation_agent of app/ai_agent.py.                                   *)
(*                                                                         *)
(* Representation of Python values:                                        *)
(*   str   [t |-> "str", s |-> <<code points>>]                            *)
(*   int   [t |-> "int", n |-> 5]                                          *)
(*   None  [t |-> "None"]                                                  *)
(*   dict  a TLA+ function whose DOMAIN is the set of keys                 *)
(*   a schema field definition is [t |-> "dict", d |-> <dict>] or a value  *)
(*   that is not a dict (the JSON body allows any value there).            *)
(* semantic_score is kept in tenths (10 is 1.0, 9 is 0.9).                 *)
(***************************************************************************)
EXTENDS Integers, Sequences, FiniteSets, TLC

(***************************************************************************)
(* Bounds of the model.                                                    *)
(***************************************************************************)
\* length of the longest sample text (a summary that is long enough)
MaxTextLen == 30

(***************************************************************************)
(* Python values.                                                          *)
(***************************************************************************)
PyStr(s) == [t |-> "str", s |-> s]
PyInt(n) == [t |-> "int", n |-> n]
\* a float, counted in halves: PyFloat(21) is 10.5
PyFloat(h) == [t |-> "float", h |-> h]
PyNone == [t |-> "None"]
PyDict(d) == [t |-> "dict", d |-> d]

\* bool(v)
Truthy(v) ==
    CASE v.t = "int" -> v.n # 0
      [] v.t = "float" -> v.h # 0
      [] v.t = "str" -> v.s # <<>>
      [] v.t = "dict" -> DOMAIN v.d # {}
      [] OTHER -> FALSE

\* the outcome of a call: a returned value or a raised exception
Return(r) == [kind |-> "return", result |-> r]
Raise(e) == [kind |-> "raise", exc |-> e]

isinstance_str(v) == v.t = "str"
isinstance_dict(v) == v.t = "dict"

\* dict.get(key, default)
Get(d, k, default) == IF k \in DOMAIN d THEN d[k] ELSE default

\* the empty dict
EmptyDict == [k \in {} |-> PyNone]

\* str.isspace() code points that can occur in the sample texts
Whitespace == {9, 10, 11, 12, 13, 28, 29, 30, 31, 32, 133, 160}

\* value.strip() == "" for a string of code points
StripIsEmpty(s) == \A i \in 1..Len(s) : s[i] \in Whitespace

(***************************************************************************)
(* Sample inputs.  Field names in the order a request lists them.          *)
(***************************************************************************)
FieldOrder == <<"summary", "count", "recommendation_text", "full_name",
                "birth_date", "zip", "email", "score", "extra">>
FieldNames == {"summary", "count", "recommendation_text"}

ShortText == <<115, 104, 111, 114, 116>>          \* "short"
LongText == [i \in 1..MaxTextLen |-> 97 + (i % 5)] \* "bcdeab..."
BlankText == <<32, 32>>                           \* "  "
FiveText == <<53>>                                \* "5"

SampleValues(f) ==
    CASE f = "summary" ->
           {PyStr(ShortText), PyStr(LongText), PyStr(BlankText), PyNone, PyInt(7)}
      [] f = "count" -> {PyInt(5), PyInt(20), PyStr(FiveText)}
      [] f = "recommendation_text" -> {PyStr(ShortText), PyNone}

StringRequired == PyDict([type |-> "string", required |-> TRUE])
StringOptional == PyDict([type |-> "string"])
IntegerRange == PyDict([type |-> "integer", required |-> TRUE, min |-> PyInt(1),
                        max |-> PyInt(10)])
IntegerOptional == PyDict([type |-> "integer", required |-> FALSE])
NotADict == PyStr(<<115, 116, 114>>)              \* "summary": "str"

SampleDefs(f) ==
    CASE f = "summary" -> {StringRequired, StringOptional, NotADict}
      [] f = "count" -> {IntegerRange, IntegerOptional}
      [] f = "recommendation_text" -> {StringOptional}

\* all dicts over the key sets in KeySets whose values come from V[key]
DictsOver(KeySets, V) ==
    UNION { {d \in [K -> UNION {V[f] : f \in K}] : \A f \in K : d[f] \in V[f]}
            : K \in KeySets }

SampleKeySets == SUBSET {"summary", "count"} \cup {{"recommendation_text"}}

DataSamples == DictsOver(SampleKeySets, [f \in FieldNames |-> SampleValues(f)])
SchemaSamples == DictsOver(SampleKeySets, [f \in FieldNames |-> SampleDefs(f)])

\* schemas as the repository returns them: Dict[str, SchemaField]
SchemaField(d) == [t |-> "SchemaField", d |-> d]
StoredDefs(f) ==
    CASE f = "summary" -> {SchemaField([type |-> "string", required |-> TRUE])}
      [] f = "count" ->
           {SchemaField([type |-> "integer", required |-> TRUE,
                         gt |-> PyFloat(2), lt |-> PyFloat(20)])}
StoredSchemaSamples == DictsOver(SUBSET {"summary", "count"}, [f \in {"summary", "count"} |-> StoredDefs(f)])

ValidationTypes == {"generic", "summary", "recommendation", "user"}
\* the kinds the heuristic validator distinguishes, and one it does not
KindSamples == {"generic", "summary", "recommendation"}
\* the records and schemas handed to the functions that only embed them in
\* the prompt
PromptDataSamples == DictsOver(SUBSET {"summary"}, [f \in FieldNames |-> SampleValues(f)])
PromptSchemaSamples == DictsOver(SUBSET {"summary"}, [f \in FieldNames |-> SampleDefs(f)])
ValidationLevel == {"structure_only", "basic", "standard", "strict"}

\* the keys of a dict in iteration order
RECURSIVE KeysFrom(_, _)
KeysFrom(d, i) ==
    IF i > Len(FieldOrder) THEN <<>>
    ELSE IF FieldOrder[i] \in DOMAIN d
         THEN <<FieldOrder[i]>> \o KeysFrom(d, i + 1)
         ELSE KeysFrom(d, i + 1)
Keys(d) == KeysFrom(d, 1)

\* Sample inputs of the schema compiler and of structural validation called
\* by themselves: names, dates, patterns, addresses and numeric bounds.
Alice == <<65, 108, 105, 99, 101>>                          \* "Alice"
Qwerty == <<113, 119, 101, 114, 116, 121>>                  \* "qwerty"
OneLetter == <<65>>                                         \* "A"
IsoDate == <<50, 48, 50, 51, 45, 49, 48, 45, 49, 53>>       \* "2023-10-15"
DayFirstDate == <<51, 49, 45, 49, 50, 45, 50, 48, 50, 51>>  \* "31-12-2023"
Day45Date == <<50, 48, 50, 51, 45, 48, 50, 45, 52, 53>>     \* "2023-02-45"
UnpaddedDate == <<50, 48, 50, 51, 45, 49, 45, 53>>          \* "2023-1-5"
ZipText == <<49, 50, 51, 52, 53>>                           \* "12345"
ZipAndMore == <<49, 50, 51, 52, 53, 97, 98, 99>>            \* "12345abc"
AbcText == <<97, 98, 99>>                                   \* "abc"
FiveDigitsPattern == <<92, 100, 123, 53, 125>>              \* \d{5}
UserAddress == <<117, 115, 101, 114, 64, 101, 120, 97, 109, 112, 108, 101, 46, 99, 111, 109>> \* "user@example.com"
InvalidAddress == <<105, 110, 118, 97, 108, 105, 100, 45, 101, 109, 97, 105, 108>> \* "invalid-email"

StructuralFields == {"full_name", "birth_date", "zip", "email", "count", "score", "extra"}

StructuralValues(f) ==
    CASE f = "full_name" ->
           {PyStr(Alice), PyStr(Qwerty), PyStr(OneLetter), PyInt(7), PyNone}
      [] f = "birth_date" ->
           {PyStr(IsoDate), PyStr(DayFirstDate), PyStr(Day45Date), PyStr(UnpaddedDate)}
      [] f = "zip" -> {PyStr(ZipText), PyStr(ZipAndMore), PyStr(AbcText)}
      [] f = "email" -> {PyStr(UserAddress), PyStr(InvalidAddress)}
      [] f = "count" -> {PyInt(0), PyInt(5), PyInt(10), PyInt(20), PyStr(FiveText)}
      [] f = "score" -> {PyFloat(1), PyFloat(3), PyInt(0), PyInt(1), PyInt(-5)}
      [] f = "extra" -> {PyStr(AbcText)}

StructuralDefs(f) ==
    CASE f = "full_name" ->
           {StringOptional,
            PyDict([type |-> "string", format |-> "date"]),
            PyDict([type |-> "string", required |-> TRUE, min_length |-> 3,
                    max_length |-> 50])}
      [] f = "birth_date" ->
           {PyDict([type |-> "string", required |-> TRUE, format |-> "date"])}
      [] f = "zip" -> {PyDict([type |-> "string", pattern |-> FiveDigitsPattern])}
      [] f = "email" ->
           {PyDict([type |-> "string", required |-> TRUE, format |-> "email"])}
      [] f = "count" ->
           {IntegerRange,
            PyDict([type |-> "integer", max |-> PyFloat(21)]),
            PyDict([type |-> "integer", min |-> PyInt(0)])}
      [] f = "score" ->
           {PyDict([type |-> "number", required |-> TRUE, min |-> PyInt(0),
                    max |-> PyFloat(3)])}
      [] f = "extra" -> {PyDict([type |-> "uuid", required |-> TRUE])}

\* one or two fields, and the three kinds of field of test_min_max_validation
StructuralKeySets ==
    {K \in SUBSET StructuralFields : Cardinality(K) \in 1..2}
       \cup {{"count", "score", "full_name"}}

StructuralSchemaSamples ==
    DictsOver(StructuralKeySets, [f \in StructuralFields |-> StructuralDefs(f)])

\* the records over the fields of a schema
StructuralDataSamples(schema) ==
    DictsOver(SUBSET DOMAIN schema, [f \in StructuralFields |-> StructuralValues(f)])

(***************************************************************************)
(* Name content check: validate_name_content.                              *)
(***************************************************************************)
Lower == 97..122
Upper == 65..90
Letters == Lower \cup Upper

\* str.lower() on the characters the name check admits
ToLower(c) ==
    IF c \in Upper \/ (c \in 192..222 /\ c # 215) THEN c + 32 ELSE c
lower(s) == [i \in 1..Len(s) |-> ToLower(s[i])]

\* len(value.strip())
RECURSIVE LStrip(_)
LStrip(s) == IF s # <<>> /\ Head(s) \in Whitespace THEN LStrip(Tail(s)) ELSE s
RECURSIVE RStrip(_)
RStrip(s) ==
    IF s # <<>> /\ s[Len(s)] \in Whitespace
    THEN RStrip(SubSeq(s, 1, Len(s) - 1)) ELSE s
strip(s) == RStrip(LStrip(s))

\* [a-zA-Z\s\-\'À-ÿ]
NameChars == Letters \cup Whitespace \cup {45, 39} \cup 192..255

\* pattern in value, for a pattern and a value of code points
Contains(s, pat) ==
    \E i \in 1..(Len(s) - Len(pat) + 1) : SubSeq(s, i, i + Len(pat) - 1) = pat

keyboard_patterns ==
    { <<113, 119, 101, 114, 116, 121>>,      \* qwerty
      <<97, 115, 100, 102, 103, 104>>,       \* asdfgh
      <<122, 120, 99, 118, 98, 110>>,        \* zxcvbn
      <<121, 117, 105, 111, 112>>,           \* yuiop
      <<104, 106, 107, 108>>,                \* hjkl
      <<110, 109>>,                          \* nm
      <<97, 122, 101, 114, 116, 121>>,       \* azerty
      <<113, 115, 100, 102, 103, 104>>,      \* qsdfgh
      <<119, 120, 99, 118, 98, 110>> }       \* wxcvbn

\* [bcdfghjklmnpqrstvwxyz]
Consonants == Lower \ {97, 101, 105, 111, 117}

\* (.)\1{3,}: position k repeats the character at i; . excludes the newline
SameAsNext(s, i, k) == s[k] = s[i] /\ s[k] # 10

\* validate_name_content: "ok" or the type of the PydanticCustomError raised
validate_name_content(value) ==
    IF value = <<>> \/ Len(strip(value)) < 2 THEN "name_too_short"
    ELSE IF \E i \in 1..Len(value) : value[i] \notin NameChars
         THEN "invalid_name_characters"
    ELSE IF \E pat \in keyboard_patterns : Contains(lower(value), pat)
         THEN "keyboard_pattern"
    ELSE IF \E i \in 1..(Len(value) - 3) :
               \A k \in i..(i + 3) : SameAsNext(value, i, k)
         THEN "repeating_characters"
    ELSE IF \E i \in 1..(Len(value) - 4) :
               \A k \in i..(i + 4) : ToLower(value[k]) \in Consonants
         THEN "random_characters"
    ELSE "ok"

(***************************************************************************)
(* Schema compiler: create_model_from_schema.                              *)
(***************************************************************************)
\* Optional values are sequences: <<>> is None, <<v>> is v
NoneNum == <<>>
Some(n) == <<n>>

\* field_def.get(a, None) or field_def.get(b, None): a zero or missing
\* first operand yields the second
GetOr(d, a, b) ==
    IF a \in DOMAIN d /\ Truthy(d[a]) THEN Some(d[a])
    ELSE IF b \in DOMAIN d THEN Some(d[b]) ELSE NoneNum

\* field_def.get(k, None)
GetOptional(d, k) == IF k \in DOMAIN d THEN Some(d[k]) ELSE NoneNum

\* int(x): truncation toward zero
int(v) ==
    IF v.t = "int" THEN v.n
    ELSE IF v.h >= 0 THEN v.h \div 2 ELSE -((-v.h) \div 2)

\* float(x), counted in halves
float(v) == IF v.t = "int" THEN 2 * v.n ELSE v.h

NameVocabulary ==
    {"name", "customer_name", "full_name", "first_name",
     "last_name", "contact_name", "person_name"}

\* the base type chosen for a field of type "string"
StringBaseType(field_name, format_type) ==
    IF format_type = "email" THEN "EmailStr"
    ELSE IF format_type = "date" THEN "str"
    ELSE IF field_name \in NameVocabulary THEN "NameStr"
    ELSE "str"

\* the (base_type, Field(**field_args)) pair built for one field definition:
\* a SchemaField object (read through model_dump, no format, bounds from
\* gt / lt only) or a plain dict; field names of the samples are lower case.
\* gt and lt are in the unit of the base type: units for int, halves for
\* float.
FieldDefinition(field_name, field_def) ==
    LET d == field_def.d
        raw == field_def.t = "dict"
        field_type == Get(d, "type", "Any")
        is_required == Get(d, "required", FALSE)
        format_type == IF raw THEN Get(d, "format", "None") ELSE "None"
        min_value == IF raw THEN GetOr(d, "gt", "min") ELSE GetOptional(d, "gt")
        max_value == IF raw THEN GetOr(d, "lt", "max") ELSE GetOptional(d, "lt")
        Bound(b) == IF b = NoneNum THEN NoneNum
                    ELSE IF field_type = "integer" THEN Some(int(b[1]))
                    ELSE Some(float(b[1]))
        numeric == field_type \in {"number", "integer"}
        string == field_type = "string"
    IN [base_type |-> CASE field_type = "string" ->
                             StringBaseType(field_name, format_type)
                        [] field_type = "integer" -> "int"
                        [] field_type = "number" -> "float"
                        [] OTHER -> "Any",
        required |-> is_required,
        gt |-> IF numeric THEN Bound(min_value) ELSE NoneNum,
        lt |-> IF numeric THEN Bound(max_value) ELSE NoneNum,
        min_length |-> IF string THEN GetOptional(d, "min_length") ELSE NoneNum,
        max_length |-> IF string THEN GetOptional(d, "max_length") ELSE NoneNum]

\* the entries of the validators dict made for one field: the date check
\* and the pattern check of a string field
Validators(field_def) ==
    LET d == field_def.d
        raw == field_def.t = "dict"
        string == Get(d, "type", "Any") = "string"
    IN (IF string /\ raw /\ Get(d, "format", "None") = "date"
        THEN {"date"} ELSE {})
       \cup (IF string /\ "pattern" \in DOMAIN d THEN {"pattern"} ELSE {})

\* hasattr(field_def, 'model_dump') or the field definition has .get
Compilable(field_def) == field_def.t \in {"SchemaField", "dict"}

\* create_model_from_schema: the compiled model, or ValueError("Invalid
\* schema: ...") when a field definition is neither.  fields is what
\* create_model compiles; validators is what setattr puts on the class
\* afterwards, when the validator of the class is already built, so
\* model_validate never consults it.
create_model_from_schema(schema) ==
    IF \E f \in DOMAIN schema : ~Compilable(schema[f])
    THEN [ok |-> FALSE, error |-> "ValueError"]
    ELSE [ok |-> TRUE,
          fields |-> [f \in DOMAIN schema |-> FieldDefinition(f, schema[f])],
          validators |-> [f \in DOMAIN schema |-> Validators(schema[f])]]

(***************************************************************************)
(* Structural validation: perform_structural_validation.                   *)
(***************************************************************************)
Digits == 48..57

RECURSIVE DecimalValue(_)
DecimalValue(s) ==
    IF s = <<>> THEN 0
    ELSE 10 * DecimalValue(SubSeq(s, 1, Len(s) - 1)) + (s[Len(s)] - 48)

IsDecimal(s) == Len(s) > 0 /\ \A i \in 1..Len(s) : s[i] \in Digits

Error(type, loc) == [type |-> type, loc |-> loc]
Accept(v) == [ok |-> TRUE, value |-> v]
Reject(type, loc) == [ok |-> FALSE, error |-> Error(type, loc)]
\* an exception that is not a validation error leaves model_validate as it is
Throw(e) == [ok |-> FALSE, raised |-> e]

\* the gt / lt constraints of a numeric field, strict on both sides; n is
\* the value in the unit of the field and v the value handed on
CheckRange(spec, loc, n, v) ==
    IF spec.gt # NoneNum /\ ~(n > spec.gt[1]) THEN Reject("greater_than", loc)
    ELSE IF spec.lt # NoneNum /\ ~(n < spec.lt[1]) THEN Reject("less_than", loc)
    ELSE Accept(v)

\* an int field in lax mode
ValidateInt(spec, loc, v) ==
    CASE v.t = "int" -> CheckRange(spec, loc, v.n, v)
      [] v.t = "float" ->
           IF v.h % 2 = 0 THEN CheckRange(spec, loc, v.h \div 2, PyInt(v.h \div 2))
           ELSE Reject("int_from_float", loc)
      [] v.t = "str" ->
           IF IsDecimal(v.s)
           THEN CheckRange(spec, loc, DecimalValue(v.s), PyInt(DecimalValue(v.s)))
           ELSE Reject("int_parsing", loc)
      [] OTHER -> Reject("int_type", loc)

\* a float field in lax mode
ValidateFloat(spec, loc, v) ==
    CASE v.t = "int" -> CheckRange(spec, loc, 2 * v.n, PyFloat(2 * v.n))
      [] v.t = "float" -> CheckRange(spec, loc, v.h, v)
      [] v.t = "str" ->
           IF IsDecimal(v.s)
           THEN CheckRange(spec, loc, 2 * DecimalValue(v.s),
                           PyFloat(2 * DecimalValue(v.s)))
           ELSE Reject("float_parsing", loc)
      [] OTHER -> Reject("float_type", loc)

\* a str field with its length constraints
ValidateStr(spec, loc, v) ==
    IF v.t # "str" THEN Reject("string_type", loc)
    ELSE IF spec.min_length # NoneNum /\ Len(v.s) < spec.min_length[1]
         THEN Reject("string_too_short", loc)
    ELSE IF spec.max_length # NoneNum /\ Len(v.s) > spec.max_length[1]
         THEN Reject("string_too_long", loc)
    ELSE Accept(v)

\* NameStr: BeforeValidator(validate_name_content) sees the raw value; a
\* falsy value is too short, value.strip() of a value that is not a string
\* raises AttributeError
ValidateName(spec, loc, v) ==
    IF ~Truthy(v) THEN Reject("name_too_short", loc)
    ELSE IF v.t # "str" THEN Throw("AttributeError")
    ELSE IF validate_name_content(v.s) # "ok"
         THEN Reject(validate_name_content(v.s), loc)
    ELSE ValidateStr(spec, loc, v)

\* the part of an address before and after its only "@", for EmailStr
EmailStrAccepts(s) ==
    \E i \in 2..(Len(s) - 3) :
       /\ s[i] = 64
       /\ \A k \in 1..Len(s) : k # i => s[k] # 64 /\ s[k] \notin Whitespace
       /\ \E j \in (i + 2)..(Len(s) - 1) : s[j] = 46

ValidateEmail(spec, loc, v) ==
    IF v.t # "str" THEN Reject("string_type", loc)
    ELSE IF ~EmailStrAccepts(v.s) THEN Reject("value_error", loc)
    ELSE ValidateStr(spec, loc, v)

\* validation of one field of the compiled model against the record
ValidateField(spec, loc, data) ==
    IF loc \notin DOMAIN data
    THEN IF spec.required THEN Reject("missing", loc) ELSE Accept(PyNone)
    ELSE LET v == data[loc] IN
         CASE spec.base_type = "str" -> ValidateStr(spec, loc, v)
           [] spec.base_type = "NameStr" -> ValidateName(spec, loc, v)
           [] spec.base_type = "EmailStr" -> ValidateEmail(spec, loc, v)
           [] spec.base_type = "int" -> ValidateInt(spec, loc, v)
           [] spec.base_type = "float" -> ValidateFloat(spec, loc, v)
           [] OTHER -> Accept(v)

RECURSIVE ErrorsFrom(_, _, _)
ErrorsFrom(model, data, ks) ==
    IF ks = <<>> THEN <<>>
    ELSE LET r == ValidateField(model.fields[Head(ks)], Head(ks), data)
         IN (IF r.ok THEN <<>> ELSE <<r.error>>)
            \o ErrorsFrom(model, data, Tail(ks))

\* "Fix validation error: {msg}" for each error, in order
Suggestions(errors) == [i \in 1..Len(errors) |-> errors[i].type]

\* perform_structural_validation: (result, validated_data.model_dump()) on
\* success, (result, data) on ValidationError; any other exception of
\* model_validate propagates
perform_structural_validation(data, model) ==
    IF \E f \in DOMAIN model.fields :
          "raised" \in DOMAIN ValidateField(model.fields[f], f, data)
    THEN Raise("AttributeError")
    ELSE LET errors == ErrorsFrom(model, data, Keys(model.fields))
         IN IF errors = <<>>
            THEN [kind |-> "return",
                  result |-> [is_structurally_valid |-> TRUE,
                              errors |-> <<>>, suggestions |-> <<>>],
                  data |-> [f \in DOMAIN model.fields |->
                               ValidateField(model.fields[f], f, data).value]]
            ELSE [kind |-> "return",
                  result |-> [is_structurally_valid |-> FALSE,
                              errors |-> errors,
                              suggestions |-> Suggestions(errors)],
                  data |-> data]

(***************************************************************************)
(* Heuristic semantic validator: basic_semantic_validation.                *)
(***************************************************************************)
SemanticValidationResult(valid, score, issues, suggestions) ==
    [is_semantically_valid |-> valid, semantic_score |-> score,
     issues |-> issues, suggestions |-> suggestions]

\* an issue or suggestion text, with the field name the f-string inserts
Text(text, field) == [text |-> text, field |-> field]
NoField == ""

\* '$' also matches before a trailing newline
EndsAt(s, n) == n = Len(s) \/ (n = Len(s) - 1 /\ s[Len(s)] = 10)

\* ^[a-zA-Z0-9._%+-]+@[a-zA-Z0-9.-]+\.[a-zA-Z]{2,}$
EmailLocal == Letters \cup Digits \cup {46, 95, 37, 43, 45}
EmailDomain == Letters \cup Digits \cup {46, 45}
MatchesEmail(s) ==
    \E at \in 2..Len(s) : \E dot \in (at + 2)..Len(s) : \E end \in (dot + 2)..Len(s) :
        /\ s[at] = 64 /\ s[dot] = 46 /\ EndsAt(s, end)
        /\ \A k \in 1..(at - 1) : s[k] \in EmailLocal
        /\ \A k \in (at + 1)..(dot - 1) : s[k] \in EmailDomain
        /\ \A k \in (dot + 1)..end : s[k] \in Letters

\* ^\d{4}-\d{2}-\d{2}$
MatchesDatePattern(s) ==
    /\ Len(s) >= 10 /\ EndsAt(s, 10)
    /\ \A k \in {1, 2, 3, 4, 6, 7, 9, 10} : s[k] \in Digits
    /\ s[5] = 45 /\ s[8] = 45

IsLeap(y) == (y % 4 = 0 /\ y % 100 # 0) \/ y % 400 = 0
DaysIn(y, m) ==
    IF m = 2 THEN (IF IsLeap(y) THEN 29 ELSE 28)
    ELSE IF m \in {4, 6, 9, 11} THEN 30 ELSE 31

\* datetime.strptime(value, "%Y-%m-%d") succeeds, for a value that matched
\* the date pattern
ParsesAsDate(s) ==
    LET y == DecimalValue(SubSeq(s, 1, 4))
        m == DecimalValue(SubSeq(s, 6, 7))
        d == DecimalValue(SubSeq(s, 9, 10))
    IN Len(s) = 10 /\ y >= 1 /\ m \in 1..12 /\ d >= 1 /\ d <= DaysIn(y, m)

\* ^\d{7,15}$ on re.sub(r'[^0-9]', '', value)
LooksLikePhone(s) ==
    Cardinality({k \in 1..Len(s) : s[k] \in Digits}) \in 7..15

EmailNames == {"email", "email_address"}
DateNames == {"date", "birthday", "birth_date", "order_date", "publication_date"}
PhoneNames == {"phone", "phone_number", "contact_phone", "telephone", "mobile"}

\* field_def.get("pattern") and "\\d" in field_def.get("pattern", "")
PatternHasDigitClass(d) ==
    "pattern" \in DOMAIN d /\ d["pattern"] # <<>> /\ Contains(d["pattern"], <<92, 100>>)

\* the texts one data field adds in the format loop: email, date, phone, name
FormatTexts(field_name, value, schema, which) ==
    LET field_def == IF field_name \in DOMAIN schema
                     THEN schema[field_name].d ELSE EmptyDict
        pick(issue, suggestion) ==
            <<Text(IF which = "issues" THEN issue ELSE suggestion, field_name)>>
        email ==
            IF (field_name \in EmailNames \/ Get(field_def, "format", "None") = "email")
               /\ isinstance_str(value) /\ ~MatchesEmail(value.s)
            THEN pick("is not a valid email address", "Provide a valid email address")
            ELSE <<>>
        date ==
            IF (field_name \in DateNames \/ Get(field_def, "format", "None") = "date")
               /\ isinstance_str(value)
            THEN IF ~MatchesDatePattern(value.s)
                 THEN pick("is not in a valid date format", "Use YYYY-MM-DD format")
                 ELSE IF ~ParsesAsDate(value.s)
                      THEN pick("contains an invalid date", "Provide a valid date")
                      ELSE <<>>
            ELSE <<>>
        phone ==
            IF (field_name \in PhoneNames \/ PatternHasDigitClass(field_def))
               /\ isinstance_str(value) /\ ~LooksLikePhone(value.s)
            THEN pick("does not appear to be a valid phone number",
                      "Provide a valid phone number")
            ELSE <<>>
        name ==
            IF field_name \in NameVocabulary /\ isinstance_str(value)
               /\ validate_name_content(value.s) # "ok"
            THEN pick(validate_name_content(value.s), "Provide a valid name")
            ELSE <<>>
    IN email \o date \o phone \o name

RECURSIVE EmptyTexts(_, _, _)
EmptyTexts(data, ks, which) ==
    IF ks = <<>> THEN <<>>
    ELSE (IF isinstance_str(data[Head(ks)]) /\ StripIsEmpty(data[Head(ks)].s)
          THEN <<Text(IF which = "issues" THEN "is empty"
                      ELSE "Provide meaningful content", Head(ks))>>
          ELSE <<>>) \o EmptyTexts(data, Tail(ks), which)

RECURSIVE MissingTexts(_, _, _, _)
MissingTexts(data, schema, ks, which) ==
    IF ks = <<>> THEN <<>>
    ELSE (IF Get(schema[Head(ks)].d, "required", FALSE) /\ Head(ks) \notin DOMAIN data
          THEN <<Text(IF which = "issues" THEN "Required field is missing"
                      ELSE "Add the required field", Head(ks))>>
          ELSE <<>>) \o MissingTexts(data, schema, Tail(ks), which)

RECURSIVE FormatLoop(_, _, _, _)
FormatLoop(data, schema, ks, which) ==
    IF ks = <<>> THEN <<>>
    ELSE FormatTexts(Head(ks), data[Head(ks)], schema, which)
         \o FormatLoop(data, schema, Tail(ks), which)

\* the field the content quality check of a validation type reads, its
\* minimum length and its texts
QualityField(validation_type) ==
    IF validation_type = "recommendation" THEN "recommendation_text" ELSE "summary"
QualityMinimum(validation_type) ==
    IF validation_type = "recommendation" THEN 20 ELSE 30
\* variant: the check is made for every validation type
QualityChecked_AnyKind(validation_type, data) ==
    QualityField(validation_type) \in DOMAIN data

QualityChecked(validation_type, data) ==
    /\ validation_type \in {"recommendation", "summary"}
    /\ QualityField(validation_type) \in DOMAIN data

QualityTexts(validation_type, data, which) ==
    IF QualityChecked(validation_type, data)
       /\ Len(data[QualityField(validation_type)].s) < QualityMinimum(validation_type)
    THEN <<Text(IF which = "issues"
                THEN (IF validation_type = "recommendation"
                      THEN "Recommendation text is too short"
                      ELSE "Summary is too short")
                ELSE "Provide more detail", NoField)>>
    ELSE <<>>

\* max(0.0, 1.0 - len(issues) * 0.1), in tenths
Score(n) == IF n = 0 THEN 10 ELSE IF 10 - n > 0 THEN 10 - n ELSE 0

HeuristicTexts(validation_type, data, schema, which) ==
    EmptyTexts(data, Keys(data), which)
    \o MissingTexts(data, schema, Keys(schema), which)
    \o FormatLoop(data, schema, Keys(data), which)
    \o QualityTexts(validation_type, data, which)

\* variant: the structural errors are not looked at
basic_semantic_validation_IgnoresErrors(validation_type, validation_level, data, schema, structural_errors) ==
    IF \E f \in DOMAIN schema : ~isinstance_dict(schema[f])
    THEN Raise("AttributeError")
    ELSE IF QualityChecked(validation_type, data)
            /\ ~isinstance_str(data[QualityField(validation_type)])
         THEN Raise("TypeError")
    ELSE LET issues == HeuristicTexts(validation_type, data, schema, "issues")
         IN Return(SemanticValidationResult(
                       Len(issues) = 0, Score(Len(issues)), issues,
                       HeuristicTexts(validation_type, data, schema, "suggestions")))

basic_semantic_validation(validation_type, validation_level, data, schema, structural_errors) ==
    IF structural_errors # <<>>
    THEN Return(SemanticValidationResult(FALSE, 0,
                    <<Text("Failed structural validation", NoField)>>,
                    <<Text("Fix structural errors before semantic validation", NoField)>>))
    \* field_def.get on a field definition that is not a dict
    ELSE IF \E f \in DOMAIN schema : ~isinstance_dict(schema[f])
         THEN Raise("AttributeError")
    \* len() of a value that has no length
    ELSE IF QualityChecked(validation_type, data)
            /\ ~isinstance_str(data[QualityField(validation_type)])
         THEN Raise("TypeError")
    ELSE LET issues == HeuristicTexts(validation_type, data, schema, "issues")
         IN Return(SemanticValidationResult(
                       Len(issues) = 0, Score(Len(issues)), issues,
                       HeuristicTexts(validation_type, data, schema, "suggestions")))

(***************************************************************************)
(* Semantic orchestrators: validation.perform_semantic_validation and      *)
(* ai_agent.perform_semantic_validation.                                   *)
(***************************************************************************)
\* what agent.run can do: return a SemanticValidationResult (whose scalar
\* fields may be None: <<>>), return another object, not return within the
\* time budget, or raise
RemoteResults ==
    { [valid |-> <<TRUE>>, score |-> <<10>>, issues |-> <<>>],
      [valid |-> <<FALSE>>, score |-> <<3>>,
       issues |-> <<Text("remote issue", NoField)>>],
      [valid |-> <<>>, score |-> <<>>, issues |-> <<>>] }
RemoteOutcomes ==
    {[kind |-> "result", raw |-> r] : r \in RemoteResults}
    \cup {[kind |-> "wrong_shape"], [kind |-> "timeout"]}
    \cup {[kind |-> "exception", exc |-> e] : e \in {"RuntimeError", "TypeError_context"}}

\* the parameters each function declares
Parameters(fn) ==
    IF fn = "validation"
    THEN {"data", "schema", "validation_type", "validation_level"}
    ELSE {"validation_type", "validation_level", "data", "schema", "structural_errors"}

\* variant: the empty schema is not reported
EmptyInputResult_DataOnly(data, schema) ==
    LET issues == IF DOMAIN data = {}
                  THEN <<Text("The provided data is empty", NoField)>> ELSE <<>>
    IN SemanticValidationResult(FALSE, 0, issues, issues)

\* the result for empty data and / or an empty schema
EmptyInputResult(data, schema) ==
    LET texts(a, b) == (IF DOMAIN data = {} THEN <<Text(a, NoField)>> ELSE <<>>)
                       \o (IF DOMAIN schema = {} THEN <<Text(b, NoField)>> ELSE <<>>)
        issues == texts("The provided data is empty", "The provided schema is empty")
    IN SemanticValidationResult(issues = <<>>, IF issues # <<>> THEN 0 ELSE 10,
           issues,
           texts("Provide actual content to validate",
                 "Define a schema with fields and validation rules"))

default_result == SemanticValidationResult(TRUE, 10, <<>>, <<>>)

TimeoutResult ==
    SemanticValidationResult(FALSE, 0,
        <<Text("Validation timed out", NoField)>>,
        <<Text("Try with simpler data or schema", NoField)>>)

\* a well-typed remote result with its None scalars replaced
RepairedResult(raw) ==
    SemanticValidationResult(
        IF raw.valid = <<>> THEN TRUE ELSE raw.valid[1],
        IF raw.score = <<>> THEN 10 ELSE raw.score[1],
        raw.issues, <<>>)

\* variant: a timeout is treated like any other failure of agent.run
AfterAgentRun_TimeoutIsDefault(outcome) ==
    IF outcome.kind = "result" THEN Return(RepairedResult(outcome.raw))
    ELSE Return(default_result)

\* validation.perform_semantic_validation after agent.run, under
\* asyncio.wait_for(timeout=10.0)
AfterAgentRun(outcome) ==
    CASE outcome.kind = "result" -> Return(RepairedResult(outcome.raw))
      [] outcome.kind = "wrong_shape" -> Return(default_result)
      [] outcome.kind = "timeout" -> Return(TimeoutResult)
      [] outcome.kind = "exception" -> Return(default_result)

\* ai_agent.perform_semantic_validation without an agent
AgentNotInitializedResult ==
    SemanticValidationResult(FALSE, 0,
        <<Text("Validation agent not initialized. Semantic validation is disabled.", NoField)>>,
        <<Text("Check OpenAI API key configuration.", NoField)>>)

\* ai_agent.perform_semantic_validation when agent.run raised
AgentErrorResult ==
    SemanticValidationResult(FALSE, 0,
        <<Text("Error during semantic validation", NoField)>>,
        <<Text("Try a different validation level or check the API configuration.", NoField)>>)

(***************************************************************************)
(* Result aggregation in the endpoints.                                    *)
(***************************************************************************)
Verdict(is_valid, structural, semantic) ==
    [kind |-> "verdict", is_valid |-> is_valid,
     structural_validation |-> structural, semantic_validation |-> semantic]
HttpError(code) == [kind |-> "http_error", status |-> code]

\* the semantic result the endpoints substitute when the semantic step raised
SemanticErrorResult ==
    SemanticValidationResult(FALSE, 0,
        <<Text("Error during semantic validation", NoField)>>,
        <<Text("Try a different validation level or check the system configuration.", NoField)>>)

\* variant: a failed semantic step leaves is_valid at the structural result
VerdictAfterSemantic_KeepsStructural(structural, ret) ==
    IF ret.kind = "return"
    THEN Verdict(structural.is_structurally_valid
                   /\ ret.result.is_semantically_valid, structural, ret.result)
    ELSE Verdict(structural.is_structurally_valid, structural, SemanticErrorResult)

\* validate_ai_output / test_validation after the semantic step
VerdictAfterSemantic(structural, ret) ==
    IF ret.kind = "return"
    THEN Verdict(structural.is_structurally_valid
                   /\ ret.result.is_semantically_valid, structural, ret.result)
    ELSE Verdict(FALSE, structural, SemanticErrorResult)

\* variant: /validate performs the semantic step at every level
WantsSemantic_Always(ep, level) == TRUE

\* whether the endpoint goes on to the semantic step for a structurally
\* valid record: /validate skips it for structure_only, /test-validation
\* always performs it
WantsSemantic(ep, level) ==
    IF ep = "validate" THEN level # "structure_only" ELSE TRUE

\* whether the endpoint goes on to the semantic step although structural
\* validation failed
EscalatesOnFailure(ep, level) == FALSE

\* the schema enrichment table of the endpoints; patterns are code points
DigitsPattern10 == <<94, 92, 100, 123, 49, 48, 125, 36>>              \* ^\d{10}$
ZipPattern == <<94, 92, 100, 123, 53, 125, 40, 45, 92, 100, 123, 52, 125, 41, 63, 36>>
type_format_enrichment ==
    [email |-> [format |-> "email"],
     birth_date |-> [format |-> "date"],
     date_of_birth |-> [format |-> "date"],
     order_date |-> [format |-> "date"],
     registration_date |-> [format |-> "date"],
     phone |-> [pattern |-> DigitsPattern10],
     phone_number |-> [pattern |-> DigitsPattern10],
     contact_phone |-> [pattern |-> DigitsPattern10],
     zipcode |-> [pattern |-> ZipPattern],
     postal_code |-> [pattern |-> ZipPattern]]

\* d with the keys of extra it does not have yet
WithDefaults(d, extra) ==
    [k \in DOMAIN d \cup DOMAIN extra |-> IF k \in DOMAIN d THEN d[k] ELSE extra[k]]

\* the enriched schema, or "raise" when a field definition in the table has
\* no .get
EnrichSchema(schema, validation_type) ==
    IF validation_type \notin {"order", "user", "personal"} THEN Return(schema)
    ELSE IF \E f \in DOMAIN schema :
               f \in DOMAIN type_format_enrichment /\ ~isinstance_dict(schema[f])
         THEN Raise("AttributeError")
         ELSE Return([f \in DOMAIN schema |->
                 IF f \in DOMAIN type_format_enrichment
                    /\ Get(schema[f].d, "type", "None") = "string"
                 THEN PyDict(WithDefaults(schema[f].d, type_format_enrichment[f]))
                 ELSE schema[f]])

(***************************************************************************)
(* Schema repository: the models, FileStorage and SchemaRepository.        *)
(* Optional fields are <<>> (None) or <<v>>; instants are numbers; version *)
(* strings are sequences of code points; a ValueError is named by its      *)
(* message.                                                                *)
(***************************************************************************)
MaxTime == 4

\* str(n) of a natural number
RECURSIVE str(_)
str(n) == IF n < 10 THEN <<48 + n>> ELSE str(n \div 10) \o <<48 + (n % 10)>>

\* variant: the minor number is not written
FormatVersion_MajorOnly(major, minor) == str(major) \o <<46>> \o str(0)

\* f"{major}.{minor}"
FormatVersion(major, minor) == str(major) \o <<46>> \o str(minor)

\* major, minor = map(int, current_version.split("."));
\* new_version = f"{major}.{minor + 1}"
NextVersion(current_version) ==
    LET dot == CHOOSE i \in 1..Len(current_version) : current_version[i] = 46
        major == DecimalValue(SubSeq(current_version, 1, dot - 1))
        minor == DecimalValue(SubSeq(current_version, dot + 1, Len(current_version)))
    IN FormatVersion(major, minor + 1)

\* version = "1.0"
InitialVersion == <<49, 46, 48>>

SchemaDefinition(name, description, version, created_at, updated_at, schema, validation_level, example, version_notes) ==
    [name |-> name, description |-> description, version |-> version,
     created_at |-> created_at, updated_at |-> updated_at, schema |-> schema,
     validation_level |-> validation_level, example |-> example,
     version_notes |-> version_notes]

SchemaMetadata(name, description, current_version, created_at, updated_at, versions) ==
    [name |-> name, description |-> description,
     current_version |-> current_version, created_at |-> created_at,
     updated_at |-> updated_at, versions |-> versions]

\* model_dump_json: instants are written as ISO strings, None as null
model_dump_json(m) ==
    [k \in DOMAIN m |->
        IF k \in {"created_at", "updated_at"} THEN [json |-> "string", iso |-> m[k]]
        ELSE IF k \in {"example", "version_notes"}
             THEN (IF m[k] = <<>> THEN [json |-> "null"]
                   ELSE [json |-> "value", v |-> m[k][1]])
        ELSE [json |-> "value", v |-> m[k]]]

\* variant: the version notes are not read back
model_validate_json_ForgetsNotes(j) ==
    [k \in DOMAIN j |->
        IF k \in {"created_at", "updated_at"} THEN j[k].iso
        ELSE IF k \in {"example", "version_notes"}
             THEN (IF j[k].json = "null" \/ k = "version_notes" THEN <<>>
                   ELSE <<j[k].v>>)
        ELSE j[k].v]

\* model_validate_json of what model_dump_json wrote
model_validate_json(j) ==
    [k \in DOMAIN j |->
        IF k \in {"created_at", "updated_at"} THEN j[k].iso
        ELSE IF k \in {"example", "version_notes"}
             THEN (IF j[k].json = "null" THEN <<>> ELSE <<j[k].v>>)
        ELSE j[k].v]

\* schema_dir.exists() and metadata_path.exists()
schema_exists(st, schema_name) == schema_name \in DOMAIN st

\* variant: an existing schema of the same name is replaced
create_schema_Overwrites(st, schema, now) ==
    LET version == InitialVersion
        schema_def == SchemaDefinition(schema.name, schema.description, version,
                          now, now, schema.schema, schema.validation_level,
                          schema.example, <<>>)
        metadata == SchemaMetadata(schema.name, schema.description, version,
                          now, now, <<version>>)
        dir == [metadata |-> model_dump_json(metadata),
                versions |-> (version :> model_dump_json(schema_def))]
    IN [ret |-> Return(schema_def), storage |-> (schema.name :> dir) @@ st]

\* FileStorage.create_schema: what it returns or raises and the directory
\* tree it leaves
create_schema(st, schema, now) ==
    IF schema_exists(st, schema.name)
    THEN [ret |-> Raise("Schema with name already exists"), storage |-> st]
    ELSE LET version == InitialVersion
             schema_def == SchemaDefinition(schema.name, schema.description, version,
                               now, now, schema.schema, schema.validation_level,
                               schema.example, <<>>)
             metadata == SchemaMetadata(schema.name, schema.description, version,
                               now, now, <<version>>)
             dir == [metadata |-> model_dump_json(metadata),
                     versions |-> (version :> model_dump_json(schema_def))]
         IN [ret |-> Return(schema_def),
             storage |-> (schema.name :> dir) @@ st]

\* FileStorage.get_schema
get_schema(st, schema_name, version) ==
    IF ~schema_exists(st, schema_name)
    THEN Raise("Schema with name does not exist")
    ELSE LET metadata == model_validate_json(st[schema_name].metadata)
             wanted == IF version = <<>> THEN metadata.current_version
                       ELSE version[1]
         IN IF \A i \in 1..Len(metadata.versions) : metadata.versions[i] # wanted
            THEN Raise("Version does not exist for schema")
            ELSE IF wanted \notin DOMAIN st[schema_name].versions
            THEN Raise("FileNotFoundError")
            ELSE Return(model_validate_json(st[schema_name].versions[wanted]))

\* a or b
OrElse(a, truthy, b) == IF a # <<>> /\ truthy THEN a[1] ELSE b

\* FileStorage.update_schema
update_schema(st, schema_name, schema_update, now) ==
    IF ~schema_exists(st, schema_name)
    THEN [ret |-> Raise("Schema with name does not exist"), storage |-> st]
    ELSE LET metadata == model_validate_json(st[schema_name].metadata)
             current_version == metadata.current_version
             current_schema ==
                 model_validate_json(st[schema_name].versions[current_version])
             new_version == NextVersion(current_version)
             updated_schema ==
                 SchemaDefinition(schema_name,
                     OrElse(schema_update.description,
                            schema_update.description # <<"">>,
                            current_schema.description),
                     new_version, current_schema.created_at, now,
                     OrElse(schema_update.schema,
                            schema_update.schema # <<EmptyDict>>,
                            current_schema.schema),
                     OrElse(schema_update.validation_level, TRUE,
                            current_schema.validation_level),
                     IF schema_update.example # <<>> THEN schema_update.example
                     ELSE current_schema.example,
                     schema_update.version_notes)
             updated_metadata ==
                 SchemaMetadata(schema_name,
                     OrElse(schema_update.description,
                            schema_update.description # <<"">>,
                            metadata.description),
                     new_version, metadata.created_at, now,
                     Append(metadata.versions, new_version))
             dir == [metadata |-> model_dump_json(updated_metadata),
                     versions |-> (new_version :> model_dump_json(updated_schema))
                                  @@ st[schema_name].versions]
         IN IF /\ schema_update.description = <<>>
               /\ schema_update.schema = <<>>
               /\ schema_update.validation_level = <<>>
               /\ schema_update.example = <<>>
            \* Nothing to update
            THEN [ret |-> Return(current_schema), storage |-> st]
            ELSE [ret |-> Return(updated_schema),
                  storage |-> [st EXCEPT ![schema_name] = dir]]

\* FileStorage.delete_schema
delete_schema(st, schema_name) ==
    IF schema_name \notin DOMAIN st THEN [ret |-> Return(FALSE), storage |-> st]
    ELSE [ret |-> Return(TRUE),
          storage |-> [n \in DOMAIN st \ {schema_name} |-> st[n]]]

\* SchemaRepository._convert_to_response
convert_to_response(schema_def) ==
    [kind |-> "SchemaResponse", name |-> schema_def.name,
     description |-> schema_def.description, version |-> schema_def.version,
     created_at |-> schema_def.created_at, updated_at |-> schema_def.updated_at,
     schema |-> schema_def.schema, validation_level |-> schema_def.validation_level,
     example |-> schema_def.example, usage_url |-> schema_def.name]

\* what the methods of SchemaRepository make of the outcome of the storage:
\* the status raised for a ValueError, by method
ServiceResponse(method, ret) ==
    IF ret.kind = "return"
    THEN (IF method = "delete_schema"
          THEN [kind |-> "SchemaDeleteResponse", deleted |-> ret.result]
          ELSE convert_to_response(ret.result))
    ELSE IF ret.exc = "FileNotFoundError" THEN HttpError(500)
    ELSE IF method = "create_schema" THEN HttpError(409)
    \* "does not exist" in str(e)
    ELSE IF method = "get_schema"
            /\ ret.exc \notin {"Schema with name does not exist",
                               "Version does not exist for schema"}
         THEN HttpError(400)
    ELSE HttpError(404)

\* the requests made of the repository
RepoNames == {"orders", "users"}
CreateSamples ==
    {[name |-> n, description |-> "first",
      schema |-> [total |-> SchemaField([type |-> "number", required |-> TRUE])],
      validation_level |-> "standard", example |-> <<>>] : n \in RepoNames}

\* SchemaUpdate bodies: empty, notes only, a description, a blank
\* description, a schema with a level and notes, an empty example
UpdateSamples ==
    LET SchemaUpdate(description, schema, validation_level, example, version_notes) ==
            [description |-> description, schema |-> schema,
             validation_level |-> validation_level, example |-> example,
             version_notes |-> version_notes]
        fields == [total |-> SchemaField([type |-> "number", required |-> TRUE]),
                   note |-> SchemaField([type |-> "string"])]
    IN { SchemaUpdate(<<>>, <<>>, <<>>, <<>>, <<>>),
         SchemaUpdate(<<>>, <<>>, <<>>, <<>>, <<"notes">>),
         SchemaUpdate(<<"second">>, <<>>, <<>>, <<>>, <<>>),
         SchemaUpdate(<<"">>, <<>>, <<>>, <<>>, <<>>),
         SchemaUpdate(<<>>, <<fields>>, <<"strict">>, <<>>, <<"notes">>),
         SchemaUpdate(<<>>, <<>>, <<>>, <<EmptyDict>>, <<>>) }

\* no version, "1.0", "1.1", "2.0" and "1.00"
VersionSamples ==
    {<<>>, <<InitialVersion>>, <<FormatVersion(1, 1)>>, <<FormatVersion(2, 0)>>,
     <<<<49, 46, 48, 48>>>>}

(***************************************************************************)
(* State.                                                                  *)
(***************************************************************************)
VARIABLES
    agent,          \* ai_agent._validation_agent: "None" or "Agent"
    api_key,        \* settings.OPENAI_API_KEY: "" or a key
    storage,        \* the directories and files under FileStorage.base_dir
    utcnow,         \* the last instant datetime.utcnow() returned
    pc,             \* position of the call in flight
    call,           \* the entry point called and its arguments
    model,          \* the compiled model of the call
    structural,     \* what perform_structural_validation returned
    semArgs,        \* the arguments of the semantic function
    handle,         \* what get_validation_agent returned to it
    semRet,         \* what the semantic function returned or raised
    outcome,        \* what the last agent.run did
    response,       \* what the call returned to its caller
    semCalls,       \* calls of a semantic function in this call
    agentReads,     \* calls of get_validation_agent in this call
    remoteCalls,    \* calls of agent.run in this call
    heuristicCalls  \* calls of basic_semantic_validation in this call

vars == <<agent, api_key, storage, utcnow, pc, call, model, structural, semArgs, handle, semRet,
          outcome, response, semCalls, agentReads, remoteCalls, heuristicCalls>>

Endpoints == {"validate", "test", "with_schema"}

Init ==
    /\ agent = "None"
    /\ api_key \in {"", "sk"}
    /\ storage = <<>>
    /\ utcnow = 0
    /\ pc = "idle"
    /\ call = PyNone
    /\ model = PyNone
    /\ structural = PyNone
    /\ semArgs = PyNone
    /\ handle = "unread"
    /\ semRet = PyNone
    /\ outcome = PyNone
    /\ response = PyNone
    /\ semCalls = 0
    /\ agentReads = 0
    /\ remoteCalls = 0
    /\ heuristicCalls = 0

\* a new call starts when no call is in flight
Begin(c, next) ==
    /\ pc = "idle"
    /\ call' = c
    /\ pc' = next
    /\ UNCHANGED <<agent, api_key, storage, utcnow, model, structural, handle, semRet, outcome,
                   semCalls, agentReads, remoteCalls, heuristicCalls>>

(***************************************************************************)
(* initialize_validation_agent: one synchronous call.  ok is whether the   *)
(* key check and the construction of the Agent succeed.                    *)
(***************************************************************************)
initialize_validation_agent ==
    /\ \E verified \in BOOLEAN, built \in BOOLEAN :
          agent' = IF api_key = "" \/ ~verified THEN agent
                   ELSE IF built THEN "Agent" ELSE "None"
    /\ UNCHANGED <<api_key, storage, utcnow, pc, call, model, structural, semArgs, handle, semRet,
                   outcome, response, semCalls, agentReads, remoteCalls,
                   heuristicCalls>>

(***************************************************************************)
(* POST /validate and POST /test-validation: request received.             *)
(***************************************************************************)
ValidateRequest ==
    /\ pc = "idle"
    /\ \E ep \in {"validate", "test"}, data \in DataSamples, schema \in SchemaSamples,
          type \in ValidationTypes, level \in ValidationLevel :
           /\ Begin([ep |-> ep, data |-> data, schema |-> schema,
                     type |-> type, level |-> level], "compile")
           /\ semArgs' = PyNone
           /\ response' = PyNone

\* POST /schemas/{schema_name}/validate: the schema and its level come from
\* the repository
ValidateWithSchemaRequest ==
    /\ pc = "idle"
    /\ \E data \in DataSamples, schema \in StoredSchemaSamples, level \in ValidationLevel :
           /\ Begin([ep |-> "with_schema", data |-> data, schema |-> schema,
                     type |-> "general", level |-> level], "compile")
           /\ semArgs' = PyNone
           /\ response' = PyNone

\* schema enrichment and create_model_from_schema
Compile ==
    /\ pc = "compile"
    /\ LET enriched == IF call.ep = "with_schema" THEN Return(call.schema)
                       ELSE EnrichSchema(call.schema, call.type)
           compiled == create_model_from_schema(enriched.result)
       IN IF enriched.kind = "raise"
          THEN /\ response' = HttpError(500)
               /\ pc' = "done"
               /\ UNCHANGED <<model, call>>
          ELSE IF ~compiled.ok
          THEN /\ response' = HttpError(IF call.ep = "with_schema" THEN 500 ELSE 400)
               /\ pc' = "done"
               /\ UNCHANGED <<model, call>>
          ELSE /\ model' = compiled
               /\ call' = [call EXCEPT !.schema = enriched.result]
               /\ pc' = "structural"
               /\ UNCHANGED response
    /\ UNCHANGED <<agent, api_key, storage, utcnow, structural, semArgs, handle, semRet, outcome,
                   semCalls, agentReads, remoteCalls, heuristicCalls>>

\* variant: the record of the request is passed instead of the validated one
SemanticArguments_RawData(c, st) ==
    [fn |-> "validation", data |-> c.data, schema |-> c.schema,
     validation_type |-> c.type, validation_level |-> c.level,
     structural_errors |-> st.result.errors,
     passed |-> {"validation_type", "validation_level", "data", "schema",
                 "structural_errors"}]

\* the arguments the endpoint passes to perform_semantic_validation
SemanticArguments(c, st) ==
    [fn |-> "validation", data |-> st.data, schema |-> c.schema,
     validation_type |-> c.type, validation_level |-> c.level,
     structural_errors |-> st.result.errors,
     passed |-> {"validation_type", "validation_level", "data", "schema",
                 "structural_errors"}]

\* perform_structural_validation and the branch that follows it
Structural ==
    /\ pc = "structural"
    /\ LET st == perform_structural_validation(call.data, model)
       IN /\ structural' = st
          /\ IF st.kind = "raise"
             \* except Exception of the endpoint
             THEN /\ response' = HttpError(500)
                  /\ pc' = "done"
                  /\ UNCHANGED semArgs
             ELSE IF ~st.result.is_structurally_valid
                     /\ ~EscalatesOnFailure(call.ep, call.level)
             THEN /\ response' = Verdict(FALSE, st.result, PyNone)
                  /\ pc' = "done"
                  /\ UNCHANGED semArgs
             ELSE IF call.ep = "with_schema"
             \* settings has no attribute SEMANTIC_VALIDATION_ENABLED
             THEN /\ response' = HttpError(500)
                  /\ pc' = "done"
                  /\ UNCHANGED semArgs
             ELSE IF ~WantsSemantic(call.ep, call.level)
             THEN /\ response' = Verdict(st.result.is_structurally_valid,
                                         st.result, PyNone)
                  /\ pc' = "done"
                  /\ UNCHANGED semArgs
             ELSE /\ semArgs' = SemanticArguments(call, st)
                  /\ pc' = "semantic"
                  /\ UNCHANGED response
    /\ UNCHANGED <<agent, api_key, storage, utcnow, call, model, handle, semRet, outcome,
                   semCalls, agentReads, remoteCalls, heuristicCalls>>

(***************************************************************************)
(* The semantic functions called directly.                                 *)
(***************************************************************************)
\* validation.perform_semantic_validation(data, schema, type, level)
SemanticCall ==
    /\ pc = "idle"
    /\ \E data \in DataSamples, schema \in SchemaSamples,
          type \in KindSamples, level \in {"standard", "strict"} :
           /\ Begin([ep |-> "semantic", data |-> data, schema |-> schema,
                     type |-> type, level |-> level], "semantic")
           /\ semArgs' = [fn |-> "validation", data |-> data, schema |-> schema,
                          validation_type |-> type, validation_level |-> level,
                          structural_errors |-> <<>>,
                          passed |-> {"data", "schema", "validation_type",
                                      "validation_level"}]
           /\ response' = PyNone

AgentLevels == {"basic", "standard", "strict"}
StructuralErrorSamples == {<<>>, <<Error("missing", "count")>>}

\* ai_agent.perform_semantic_validation(type, level, data, schema, errors)
AgentSemanticCall ==
    /\ pc = "idle"
    /\ \E data \in PromptDataSamples, schema \in PromptSchemaSamples,
          type \in KindSamples, level \in AgentLevels,
          errors \in StructuralErrorSamples :
           /\ Begin([ep |-> "agent_semantic", data |-> data, schema |-> schema,
                     type |-> type, level |-> level], "semantic")
           /\ semArgs' = [fn |-> "ai_agent", data |-> data, schema |-> schema,
                          validation_type |-> type, validation_level |-> level,
                          structural_errors |-> errors,
                          passed |-> {"validation_type", "validation_level",
                                      "data", "schema", "structural_errors"}]
           /\ response' = PyNone

Enhanced(status, semantic) ==
    [kind |-> "enhanced", standard_validation |-> status,
     semantic_validation |-> semantic]

NotConfiguredResult ==
    SemanticValidationResult(FALSE, 0,
        <<Text("OpenAI API key not configured. Semantic validation is disabled.", NoField)>>,
        <<Text("Configure OPENAI_API_KEY environment variable to enable semantic validation.", NoField)>>)

\* ai_agent.enhance_validation(data, type, level, standard_validation_result,
\* structural_errors), up to its call of perform_semantic_validation
enhance_validation ==
    /\ pc = "idle"
    /\ \E data \in PromptDataSamples, schema \in PromptSchemaSamples,
          type \in KindSamples, level \in AgentLevels,
          status \in {"valid", "invalid"} :
           LET errors == IF status = "valid" THEN <<>> ELSE <<Error("missing", "count")>>
               proceed == api_key # "" /\ (status = "valid" \/ level = "strict")
           IN /\ Begin([ep |-> "enhance", data |-> data, schema |-> schema,
                        type |-> type, level |-> level, status |-> status],
                       IF proceed THEN "semantic" ELSE "done")
              /\ semArgs' =
                   IF proceed
                   THEN [fn |-> "ai_agent", data |-> data, schema |-> schema,
                         validation_type |-> type, validation_level |-> level,
                         structural_errors |-> errors,
                         passed |-> {"validation_type", "validation_level",
                                     "data", "schema", "structural_errors"}]
                   ELSE PyNone
              /\ response' =
                   IF proceed THEN PyNone
                   ELSE IF api_key = "" THEN Enhanced(status, NotConfiguredResult)
                   ELSE Enhanced(status, PyNone)

(***************************************************************************)
(* The semantic step.                                                      *)
(***************************************************************************)
\* entry of the semantic function, up to its return or its agent.run
SemanticEnter ==
    /\ pc = "semantic"
    /\ semCalls' = semCalls + 1
    /\ LET a == semArgs
           empty == DOMAIN a.data = {} \/ DOMAIN a.schema = {}
       IN IF ~(a.passed \subseteq Parameters(a.fn))
          \* unexpected keyword argument
          THEN /\ semRet' = Raise("TypeError")
               /\ pc' = "aggregate"
               /\ UNCHANGED <<handle, agentReads, remoteCalls, heuristicCalls>>
          ELSE IF a.fn = "validation" /\ empty
          THEN /\ semRet' = Return(EmptyInputResult(a.data, a.schema))
               /\ pc' = "aggregate"
               /\ UNCHANGED <<handle, agentReads, remoteCalls, heuristicCalls>>
          ELSE /\ handle' = agent
               /\ agentReads' = agentReads + 1
               /\ IF agent = "None"
                  THEN /\ IF a.fn = "validation"
                          THEN /\ semRet' = basic_semantic_validation(
                                                a.validation_type, a.validation_level,
                                                a.data, a.schema, <<>>)
                               /\ heuristicCalls' = heuristicCalls + 1
                          ELSE /\ semRet' = Return(AgentNotInitializedResult)
                               /\ UNCHANGED heuristicCalls
                       /\ pc' = "aggregate"
                       /\ UNCHANGED remoteCalls
                  ELSE /\ remoteCalls' = remoteCalls + 1
                       /\ pc' = "awaiting"
                       /\ UNCHANGED <<semRet, heuristicCalls>>
    /\ UNCHANGED <<agent, api_key, storage, utcnow, call, model, structural, semArgs, outcome,
                   response>>

\* validation.perform_semantic_validation resumes after
\* asyncio.wait_for(agent.run(...), timeout=10.0)
AwaitAgentRun ==
    /\ pc = "awaiting"
    /\ semArgs.fn = "validation"
    /\ \E o \in RemoteOutcomes :
          /\ outcome' = o
          /\ semRet' = AfterAgentRun(o)
    /\ pc' = "aggregate"
    /\ UNCHANGED <<agent, api_key, storage, utcnow, call, model, structural, semArgs, handle, response,
                   semCalls, agentReads, remoteCalls, heuristicCalls>>

\* the object agent.run returned, handed on as it is
RemoteObject(o) == [remote |-> o]

\* ai_agent.perform_semantic_validation resumes after await agent.run(...):
\* there is no time budget, so it resumes only if agent.run returns or raises
AwaitAgentRunUnbounded ==
    /\ pc = "awaiting"
    /\ semArgs.fn = "ai_agent"
    /\ \E o \in RemoteOutcomes :
          /\ o.kind # "timeout"
          /\ outcome' = o
          /\ IF o.kind = "exception" /\ o.exc = "TypeError_context" /\ remoteCalls = 1
             \* second attempt, with the context parameter
             THEN /\ remoteCalls' = remoteCalls + 1
                  /\ pc' = "awaiting"
                  /\ UNCHANGED semRet
             ELSE /\ semRet' = IF o.kind = "exception" THEN Return(AgentErrorResult)
                               ELSE Return(RemoteObject(o))
                  /\ pc' = "aggregate"
                  /\ UNCHANGED remoteCalls
    /\ UNCHANGED <<agent, api_key, storage, utcnow, call, model, structural, semArgs, handle, response,
                   semCalls, agentReads, heuristicCalls>>

\* the caller of the semantic function builds what it returns
Aggregate ==
    /\ pc = "aggregate"
    /\ response' =
         CASE call.ep \in {"validate", "test"} ->
                VerdictAfterSemantic(structural.result, semRet)
           [] call.ep = "enhance" ->
                \* semantic_result.model_dump() if semantic_result else None
                IF "remote" \notin DOMAIN semRet.result
                THEN Enhanced(call.status, semRet.result)
                ELSE IF semRet.result.remote.kind = "wrong_shape"
                     THEN Raise("AttributeError")
                     ELSE Enhanced(call.status, semRet.result.remote.raw)
           [] OTHER -> semRet
    /\ pc' = "done"
    /\ UNCHANGED <<agent, api_key, storage, utcnow, call, model, structural, semArgs, handle, semRet,
                   outcome, semCalls, agentReads, remoteCalls, heuristicCalls>>

\* the call has returned; the process waits for the next one
Finish ==
    /\ pc = "done"
    /\ pc' = "idle"
    /\ call' = PyNone
    /\ model' = PyNone
    /\ structural' = PyNone
    /\ semArgs' = PyNone
    /\ handle' = "unread"
    /\ semRet' = PyNone
    /\ outcome' = PyNone
    /\ response' = PyNone
    /\ semCalls' = 0
    /\ agentReads' = 0
    /\ remoteCalls' = 0
    /\ heuristicCalls' = 0
    /\ UNCHANGED <<agent, api_key, storage, utcnow>>

Next ==
    \/ initialize_validation_agent
    \/ ValidateRequest
    \/ ValidateWithSchemaRequest
    \/ Compile
    \/ Structural
    \/ SemanticCall
    \/ AgentSemanticCall
    \/ enhance_validation
    \/ SemanticEnter
    \/ AwaitAgentRun
    \/ AwaitAgentRunUnbounded
    \/ Aggregate
    \/ Finish

Spec == Init /\ [][Next]_vars

\* The semantic functions called one after the other, for the properties of
\* the agent handle over time.
\* the steps a call in flight takes by itself; the resumption after
\* asyncio.wait_for is among them because the timer fires
Progress ==
    \/ SemanticEnter
    \/ AwaitAgentRun
    \/ Aggregate
    \/ Finish

\* calls keep arriving
Requests ==
    \/ SemanticCall
    \/ AgentSemanticCall

AgentNext ==
    \/ initialize_validation_agent
    \/ Requests
    \/ Progress
    \/ AwaitAgentRunUnbounded

\* Nothing schedules initialize_validation_agent, and the resumption of a
\* bare await agent.run(...) depends on the remote peer alone: neither is
\* fair.
FairSpec == Init /\ [][AgentNext]_vars /\ WF_vars(Progress) /\ WF_vars(Requests)

(***************************************************************************)
(* The schema compiler and structural validation called by themselves.     *)
(***************************************************************************)
\* create_model_from_schema(schema)
CompileCall ==
    /\ pc = "idle"
    /\ \E schema \in StructuralSchemaSamples :
       \E data \in StructuralDataSamples(schema) :
          LET compiled == create_model_from_schema(schema)
          IN /\ call' = [ep |-> "structural", schema |-> schema, data |-> data]
             /\ model' = compiled
             /\ IF compiled.ok
                THEN pc' = "structural" /\ UNCHANGED response
                ELSE pc' = "done" /\ response' = Raise(compiled.error)
    /\ UNCHANGED <<agent, api_key, storage, utcnow, structural, semArgs, handle, semRet, outcome,
                   semCalls, agentReads, remoteCalls, heuristicCalls>>

\* await perform_structural_validation(data, model_class)
StructuralCall ==
    /\ pc = "structural"
    /\ call.ep = "structural"
    /\ structural' = perform_structural_validation(call.data, model)
    /\ response' = structural'
    /\ pc' = "done"
    /\ UNCHANGED <<agent, api_key, storage, utcnow, call, model, semArgs, handle, semRet, outcome,
                   semCalls, agentReads, remoteCalls, heuristicCalls>>

StructuralNext ==
    \/ CompileCall
    \/ StructuralCall
    \/ Finish

StructuralSpec == Init /\ [][StructuralNext]_vars

(***************************************************************************)
(* The name check called by itself, on the names of the tests and of       *)
(* name_validation_examples.py and on every short string over a small      *)
(* alphabet.                                                               *)
(***************************************************************************)
MaxNameLen == 3

\* name_validation_examples.py
VALID_NAMES ==
    {
      \* John Smith
      <<74, 111, 104, 110, 32, 83, 109, 105, 116, 104>>,
      \* María Rodríguez
      <<77, 97, 114, 237, 97, 32, 82, 111, 100, 114, 237, 103, 117, 101, 122>>,
      \* Jean-Claude O'Brien
      <<74, 101, 97, 110, 45, 67, 108, 97, 117, 100, 101, 32, 79, 39, 66, 114, 105, 101, 110>>,
      \* Søren Kierkegaard
      <<83, 248, 114, 101, 110, 32, 75, 105, 101, 114, 107, 101, 103, 97, 97, 114, 100>>,
      \* Johann Sebastian Bach
      <<74, 111, 104, 97, 110, 110, 32, 83, 101, 98, 97, 115, 116, 105, 97, 110, 32, 66, 97, 99, 104>>,
      \* Николай Римский-Корсаков
      <<1053, 1080, 1082, 1086, 1083, 1072, 1081, 32, 1056, 1080, 1084, 1089, 1082, 1080, 1081, 45, 1050, 1086, 1088, 1089, 1072, 1082, 1086, 1074>>,
      \* 李 白
      <<26446, 32, 30333>> }
INVALID_NAMES ==
    {
      \* asdfghjkl
      <<97, 115, 100, 102, 103, 104, 106, 107, 108>>,
      \* qwertyuiop
      <<113, 119, 101, 114, 116, 121, 117, 105, 111, 112>>,
      \* aaaaaaaaa
      <<97, 97, 97, 97, 97, 97, 97, 97, 97>>,
      \* x
      <<120>>,
      \* 123456
      <<49, 50, 51, 52, 53, 54>>,
      \* !@#$%^
      <<33, 64, 35, 36, 37, 94>> }

\* the names of the examples, "John Doe" and "Strngth", and every string of
\* at most MaxNameLen characters over a, n, m, the space, the digit 1 and the
\* Cyrillic small letter i
NameSamples ==
    VALID_NAMES \cup INVALID_NAMES
    \cup { <<74, 111, 104, 110, 32, 68, 111, 101>>,
           <<83, 116, 114, 110, 103, 116, 104>> }
    \cup UNION { [1..n -> {97, 110, 109, 32, 49, 1080}] : n \in 0..MaxNameLen }

\* validate_name_content(value): the value itself, or PydanticCustomError
NameCall ==
    /\ pc = "idle"
    /\ \E value \in NameSamples :
          LET checked == validate_name_content(value)
          IN /\ call' = [ep |-> "name", value |-> value]
             /\ response' = IF checked = "ok" THEN Return(PyStr(value))
                            ELSE Raise(checked)
    /\ pc' = "done"
    /\ UNCHANGED <<agent, api_key, storage, utcnow, model, structural, semArgs, handle, semRet,
                   outcome, semCalls, agentReads, remoteCalls, heuristicCalls>>

NameNext ==
    \/ NameCall
    \/ Finish

NameSpec == Init /\ [][NameNext]_vars

(***************************************************************************)
(* The heuristic validator called by itself.                               *)
(***************************************************************************)
\* basic_semantic_validation(type, level, data, schema, structural_errors)
HeuristicCall ==
    /\ pc = "idle"
    /\ \E data \in DataSamples, schema \in SchemaSamples, type \in KindSamples,
          level \in {"basic", "standard"}, errors \in StructuralErrorSamples :
           /\ call' = [ep |-> "heuristic", data |-> data, schema |-> schema,
                       type |-> type, level |-> level]
           /\ semArgs' = [fn |-> "basic", data |-> data, schema |-> schema,
                          validation_type |-> type, validation_level |-> level,
                          structural_errors |-> errors,
                          passed |-> {"validation_type", "validation_level",
                                      "data", "schema", "structural_errors"}]
           /\ semRet' = basic_semantic_validation(type, level, data, schema, errors)
           /\ response' = semRet'
    /\ heuristicCalls' = heuristicCalls + 1
    /\ pc' = "done"
    /\ UNCHANGED <<agent, api_key, storage, utcnow, model, structural, handle, outcome, semCalls,
                   agentReads, remoteCalls>>

HeuristicNext ==
    \/ HeuristicCall
    \/ Finish

HeuristicSpec == Init /\ [][HeuristicNext]_vars

(***************************************************************************)
(* The schema repository: the methods of SchemaRepository, each with the   *)
(* call of FileStorage it makes.  outcome is what the storage returned or  *)
(* raised, response what the service returns.                              *)
(***************************************************************************)
RepoCall(c, result, now) ==
    /\ call' = c
    /\ outcome' = result.ret
    /\ response' = ServiceResponse(c.ep, result.ret)
    /\ storage' = result.storage
    /\ utcnow' = IF result.storage # storage THEN now ELSE utcnow
    /\ pc' = "done"
    /\ UNCHANGED <<agent, api_key, model, structural, semArgs, handle, semRet,
                   semCalls, agentReads, remoteCalls, heuristicCalls>>

\* SchemaRepository.create_schema(schema)
CreateSchemaRequest ==
    /\ pc = "idle"
    /\ utcnow < MaxTime
    /\ \E schema \in CreateSamples :
          RepoCall([ep |-> "create_schema", name |-> schema.name, schema |-> schema],
                   create_schema(storage, schema, utcnow + 1), utcnow + 1)

\* SchemaRepository.get_schema(schema_name, version)
GetSchemaRequest ==
    /\ pc = "idle"
    /\ \E name \in RepoNames, version \in VersionSamples :
          RepoCall([ep |-> "get_schema", name |-> name, version |-> version],
                   [ret |-> get_schema(storage, name, version), storage |-> storage],
                   utcnow)

\* SchemaRepository.update_schema(schema_name, schema_update)
UpdateSchemaRequest ==
    /\ pc = "idle"
    /\ utcnow < MaxTime
    /\ \E name \in RepoNames, schema_update \in UpdateSamples :
          RepoCall([ep |-> "update_schema", name |-> name, update |-> schema_update],
                   update_schema(storage, name, schema_update, utcnow + 1),
                   utcnow + 1)

\* SchemaRepository.delete_schema(schema_name)
DeleteSchemaRequest ==
    /\ pc = "idle"
    /\ \E name \in RepoNames :
          RepoCall([ep |-> "delete_schema", name |-> name],
                   delete_schema(storage, name), utcnow)

RepositoryNext ==
    \/ CreateSchemaRequest
    \/ GetSchemaRequest
    \/ UpdateSchemaRequest
    \/ DeleteSchemaRequest
    \/ Finish

RepositorySpec == Init /\ [][RepositoryNext]_vars

TypeOK ==
    /\ agent \in {"None", "Agent"}
    /\ pc \in {"idle", "compile", "structural", "semantic", "awaiting",
               "aggregate", "done"}
    /\ semCalls \in 0..1

(***************************************************************************)
(* Properties.                                                             *)
(***************************************************************************)
\* the semantic function fn was entered with arguments it accepts and has
\* returned or raised
SemanticDone(fn) ==
    /\ pc \in {"aggregate", "done"}
    /\ semArgs # PyNone
    /\ semCalls = 1
    /\ semArgs.fn = fn
    /\ semArgs.passed \subseteq Parameters(fn)

NonEmptyInputs == DOMAIN semArgs.data # {} /\ DOMAIN semArgs.schema # {}

\* what the heuristic validator computes for the arguments of the call
HeuristicOutcome ==
    basic_semantic_validation(semArgs.validation_type, semArgs.validation_level,
                              semArgs.data, semArgs.schema, semArgs.structural_errors)

\* C1: in validation.perform_semantic_validation, with non-empty data and
\* schema and an agent, an agent.run that does not return within the time
\* budget yields the fixed timeout result (invalid, score 0.0, exactly one
\* issue, "Validation timed out"); the call does not raise and the heuristic
\* validator is not invoked.
C1_TimeoutYieldsFixedResult ==
    (SemanticDone("validation") /\ NonEmptyInputs /\ handle = "Agent"
       /\ outcome = [kind |-> "timeout"])
    => /\ semRet.kind = "return"
       /\ semRet.result.is_semantically_valid = FALSE
       /\ semRet.result.semantic_score = 0
       /\ Len(semRet.result.issues) = 1
       /\ semRet.result.issues[1].text = "Validation timed out"
       /\ heuristicCalls = 0

\* a call whose agent.run timed out although the heuristic validator would
\* have accepted the record
C1_Witness ==
    /\ pc = "done" /\ SemanticDone("validation") /\ NonEmptyInputs
    /\ outcome = [kind |-> "timeout"]
    /\ HeuristicOutcome.kind = "return"
    /\ HeuristicOutcome.result.is_semantically_valid

\* C2: when agent.run returns an object that is not a
\* SemanticValidationResult, validation.perform_semantic_validation returns
\* the result basic_semantic_validation computes for the same arguments.
C2_WrongShapeFallsBackToHeuristic ==
    (SemanticDone("validation") /\ outcome = [kind |-> "wrong_shape"]
       /\ HeuristicOutcome.kind = "return")
    => semRet = HeuristicOutcome

\* C3: when agent.run raises an exception other than a timeout,
\* validation.perform_semantic_validation returns
\* the result basic_semantic_validation computes for the same arguments.
C3_ExceptionFallsBackToHeuristic ==
    (SemanticDone("validation") /\ outcome # PyNone /\ outcome.kind = "exception"
       /\ HeuristicOutcome.kind = "return")
    => semRet = HeuristicOutcome

\* C4: with non-empty data and schema and no agent handle, every semantic
\* entry point makes no remote call and returns the heuristic validator's
\* result; the missing service is not itself reported as an invalid result.
C4_NoAgentUsesHeuristic ==
    (\E fn \in {"validation", "ai_agent"} : SemanticDone(fn)
       /\ NonEmptyInputs /\ handle = "None"
       /\ HeuristicOutcome.kind = "return")
    => /\ remoteCalls = 0
       /\ semRet = HeuristicOutcome

\* C5: validation.perform_semantic_validation with empty data and / or an
\* empty schema returns an invalid result with score 0.0 whose issues name
\* exactly the empty ones, before the agent handle is read or agent.run is
\* called.
C5_EmptyInputsReported ==
    (SemanticDone("validation") /\ ~NonEmptyInputs)
    => /\ semRet.kind = "return"
       /\ semRet.result.is_semantically_valid = FALSE
       /\ semRet.result.semantic_score = 0
       /\ LET texts == {semRet.result.issues[i].text :
                          i \in 1..Len(semRet.result.issues)}
          IN /\ ("The provided data is empty" \in texts) <=> (DOMAIN semArgs.data = {})
             /\ ("The provided schema is empty" \in texts) <=> (DOMAIN semArgs.schema = {})
             /\ Len(semRet.result.issues) = Cardinality(texts)
             /\ texts \subseteq {"The provided data is empty",
                                 "The provided schema is empty"}
       /\ agentReads = 0 /\ handle = "unread"
       /\ remoteCalls = 0

\* a call with a record and an empty schema, made while an agent is available
C5_Witness ==
    /\ pc = "done" /\ SemanticDone("validation")
    /\ DOMAIN semArgs.data # {} /\ DOMAIN semArgs.schema = {}
    /\ agent = "Agent"

\* C6: for every data and schema, validation.perform_semantic_validation
\* returns a SemanticValidationResult and never raises.
C6_SemanticValidationNeverRaises ==
    SemanticDone("validation") => semRet.kind = "return"

\* the call in flight is one of the three endpoints and has produced a verdict
EndpointVerdict ==
    /\ pc = "done"
    /\ call.ep \in Endpoints
    /\ response.kind = "verdict"

StructurallyValid == response.structural_validation.is_structurally_valid

StructuralFailureDone ==
    /\ pc = "done"
    /\ IF call.ep \in {"validate", "test"}
       THEN response.kind = "verdict" /\ ~StructurallyValid
       ELSE call.ep = "enhance" /\ call.status = "invalid" /\ api_key # ""
            /\ response.kind = "enhanced"

\* C8: when the level is strict and structural validation fails, the
\* semantic step is still attempted and the verdict carries a semantic
\* result; for basic and standard a structural failure ends the call
\* without the semantic step.
C8_StrictEscalates ==
    StructuralFailureDone
    => /\ call.level = "strict"
            => semCalls = 1 /\ response.semantic_validation # PyNone
       /\ call.level \in {"basic", "standard"} => semCalls = 0

\* C9: a verdict that carries a semantic result has is_valid equal to
\* (is_structurally_valid and is_semantically_valid); a verdict without one
\* has is_valid equal to is_structurally_valid; also when the semantic step
\* raised.
C9_IsValidIsConjunction ==
    EndpointVerdict
    => IF response.semantic_validation # PyNone
       THEN response.is_valid
              = (StructurallyValid
                 /\ response.semantic_validation.is_semantically_valid)
       ELSE response.is_valid = StructurallyValid

\* a verdict for a structurally valid record whose semantic step raised
C9_Witness ==
    /\ EndpointVerdict /\ StructurallyValid
    /\ semRet # PyNone /\ semRet.kind = "raise"
    /\ response.semantic_validation # PyNone

\* C10: within one call of an endpoint, compilation and structural
\* validation are complete before the semantic step starts, the semantic
\* function is called at most once, and it is given the record the
\* structural step returned.
C10_StructuralBeforeSemantic ==
    (pc # "idle" /\ call.ep \in Endpoints)
    => /\ semCalls <= 1
       /\ pc \in {"compile", "structural"} => semCalls = 0 /\ semArgs = PyNone
       /\ (semCalls = 1 \/ pc \in {"semantic", "awaiting"})
            => /\ model # PyNone /\ model.ok
               /\ structural # PyNone
               /\ semArgs.data = structural.data

\* a call whose semantic step was given a record that structural validation
\* had changed
C10_Witness ==
    /\ pc = "done" /\ call.ep \in Endpoints /\ semCalls = 1
    /\ structural.data # call.data
    /\ semArgs.data = structural.data

\* C11: every call to the remote service is bounded by a timeout, so a call
\* that is waiting for agent.run eventually completes even when the remote
\* peer never answers.
C11_RemoteCallsAreBounded == (pc = "awaiting") ~> (pc = "done")

\* C12: with an API key configured, a sequence of validation requests
\* eventually reads a usable agent handle and takes the remote path (the
\* handle is initialized lazily by the first call that needs it).
C12_LazyInitialization == (api_key # "") => <>(handle = "Agent" /\ remoteCalls > 0)

\* C13: once the agent handle is Ready it stays Ready: a later call of
\* initialize_validation_agent never replaces a working handle with None.
C13_ReadyStaysReady == [][agent = "Agent" => agent' = "Agent"]_vars

\* a direct call of structural validation on a compiled model has ended
StructuralDone == pc = "done" /\ call.ep = "structural" /\ model.ok

\* the errors of the result name the field
ReportsField(F) ==
    /\ structural.kind = "return"
    /\ ~structural.result.is_structurally_valid
    /\ \E i \in 1..Len(structural.result.errors) :
          structural.result.errors[i].loc = F

\* C14: for every field F declared required, whatever its type, structural
\* validation of a record that omits F returns is_structurally_valid = false
\* with an error whose loc is F.
C14_RequiredFieldReported ==
    StructuralDone
    => \A F \in DOMAIN call.schema :
          (Get(call.schema[F].d, "required", FALSE) /\ F \notin DOMAIN call.data)
          => ReportsField(F)

\* C15: every field of the record that violates its compiled constraints has
\* an entry in the error list, not only the first one, and the suggestions
\* list has one entry per error.
C15_EveryViolationReported ==
    StructuralDone
    => /\ \A F \in DOMAIN model.fields :
             ~ValidateField(model.fields[F], F, call.data).ok => ReportsField(F)
       /\ structural.kind = "return"
            => Len(structural.result.suggestions) = Len(structural.result.errors)

\* C16: perform_structural_validation never raises for bad data; a valid
\* record comes back coerced with empty errors and suggestions, an invalid
\* one comes back as the caller passed it.
C16_StructuralNeverRaises ==
    StructuralDone
    => /\ structural.kind = "return"
       /\ IF structural.result.is_structurally_valid
          THEN /\ structural.result.errors = <<>>
               /\ structural.result.suggestions = <<>>
               /\ DOMAIN structural.data = DOMAIN model.fields
          ELSE structural.data = call.data

\* C17: a number or integer field whose schema gives min m and / or max M
\* accepts a numeric value v of its type exactly when v > m and v < M.
C17_StrictBoundsAsGiven ==
    StructuralDone
    => \A F \in DOMAIN call.schema \cap DOMAIN call.data :
          LET d == call.schema[F].d
              v == call.data[F]
          IN (/\ d.type \in {"number", "integer"}
              /\ v.t \in {"int", "float"}
              /\ d.type = "integer" => v.t = "int")
             => (ValidateField(model.fields[F], F, call.data).ok
                   <=> /\ "min" \in DOMAIN d => float(v) > float(d.min)
                       /\ "max" \in DOMAIN d => float(v) < float(d.max))

\* the whole value matches \d{5}
FullMatchFiveDigits(s) == Len(s) = 5 /\ \A i \in 1..5 : s[i] \in Digits

\* the record was returned as structurally valid
ReturnedValid ==
    structural.kind = "return" /\ structural.result.is_structurally_valid

\* C18: a string field with a pattern accepts a non-empty value only if the
\* whole value matches the pattern; a value that does not match makes the
\* record structurally invalid.
C18_PatternMatchesWholeValue ==
    StructuralDone
    => \A F \in DOMAIN call.schema \cap DOMAIN call.data :
          LET d == call.schema[F].d
              v == call.data[F]
          IN (/\ d.type = "string"
              /\ "pattern" \in DOMAIN d
              /\ d.pattern = FiveDigitsPattern
              /\ v.t = "str"
              /\ v.s # <<>>
              /\ ~FullMatchFiveDigits(v.s))
             => ~ReturnedValid

\* C19: a string field with format "date" rejects every value that is not a
\* strict YYYY-MM-DD string or is an impossible calendar date: such a value
\* makes the record structurally invalid.
C19_DateFormatEnforced ==
    StructuralDone
    => \A F \in DOMAIN call.schema \cap DOMAIN call.data :
          LET d == call.schema[F].d
              v == call.data[F]
          IN (/\ d.type = "string"
              /\ Get(d, "format", "None") = "date"
              /\ v.t = "str"
              /\ ~(MatchesDatePattern(v.s) /\ ParsesAsDate(v.s)))
             => ~ReturnedValid

\* C20: a string field gets the name-content check exactly when its name is
\* in the name vocabulary, whatever format, pattern or length bounds it
\* declares.
C20_NameCheckIffVocabulary ==
    StructuralDone
    => \A F \in DOMAIN call.schema :
          call.schema[F].d.type = "string"
          => (model.fields[F].base_type = "NameStr" <=> F \in NameVocabulary)

\* validate_name_content has been called and has returned or raised
NameDone == pc = "done" /\ call.ep = "name"

\* C21: validate_name_content returns its argument unchanged when the value
\* has at least two characters after trimming, holds only letters, spaces,
\* hyphens, apostrophes and accented letters, no keyboard-walk substring, no
\* run of four identical characters and no run of five consonants;
\* otherwise it raises the error of the first of these rules that fails.
C21_NameRulesInOrder ==
    NameDone
    => LET v == call.value
           low == lower(v)
           \* letters of the scripts of the examples: Latin, Latin-1 (without
           \* the multiplication and division signs), Cyrillic, CJK
           letters == Letters \cup (192..255 \ {215, 247}) \cup 1040..1103
                      \cup 19968..40959
           rule ==
               IF Len(strip(v)) < 2 THEN "name_too_short"
               ELSE IF \E i \in 1..Len(v) :
                          v[i] \notin letters \cup {32, 45, 39}
                    THEN "invalid_name_characters"
               ELSE IF \E pat \in keyboard_patterns : Contains(low, pat)
                    THEN "keyboard_pattern"
               ELSE IF \E i \in 1..(Len(v) - 3) : \A k \in i..(i + 3) : v[k] = v[i]
                    THEN "repeating_characters"
               ELSE IF \E i \in 1..(Len(v) - 4) :
                          \A k \in i..(i + 4) : low[k] \in Consonants
                    THEN "random_characters"
               ELSE "ok"
       IN response = IF rule = "ok" THEN Return(PyStr(v)) ELSE Raise(rule)

\* C26: every name of VALID_NAMES is accepted by the name check and every
\* name of INVALID_NAMES is rejected.
C26_ExampleNamesAsListed ==
    NameDone
    => /\ call.value \in VALID_NAMES => response = Return(PyStr(call.value))
       /\ call.value \in INVALID_NAMES => response.kind = "raise"

\* basic_semantic_validation has been called and has returned or raised
HeuristicDone == pc = "done" /\ call.ep = "heuristic"

\* C22: every result of basic_semantic_validation is valid exactly when it
\* has no issue, scores 1.0 exactly when it has no issue, and otherwise
\* scores max(0, 1 - 0.1 * number of issues) (scores in tenths).
C22_ScoreFromIssueCount ==
    (HeuristicDone /\ response.kind = "return")
    => LET r == response.result
           n == Len(r.issues)
       IN /\ r.is_semantically_valid <=> n = 0
          /\ r.semantic_score = 10 <=> n = 0
          /\ n > 0 => r.semantic_score = (IF 10 - n > 0 THEN 10 - n ELSE 0)

\* C23: with a non-empty structural_errors list the result is invalid and
\* holds the single issue "Failed structural validation", whatever the
\* other rules would find or raise on the data; with no structural errors
\* the issues are those of all the rules.
C23_StructuralErrorsShortCircuit ==
    HeuristicDone
    => IF semArgs.structural_errors # <<>>
       THEN /\ response.kind = "return"
            /\ ~response.result.is_semantically_valid
            /\ response.result.issues = <<Text("Failed structural validation", NoField)>>
       ELSE response.kind = "return"
            => response.result.issues
               = HeuristicTexts(semArgs.validation_type, semArgs.data,
                                semArgs.schema, "issues")

\* a short-circuited call on a schema whose rules would raise, and one on a
\* record whose rules would report a blank summary
C23_Witness ==
    /\ HeuristicDone
    /\ semArgs.structural_errors # <<>>
    /\ response.kind = "return"
    /\ response.result.issues = <<Text("Failed structural validation", NoField)>>
    /\ \/ \E f \in DOMAIN semArgs.schema : ~isinstance_dict(semArgs.schema[f])
       \/ /\ "summary" \in DOMAIN semArgs.data
          /\ semArgs.data["summary"] = PyStr(BlankText)

\* C24: for kind "summary" a present summary text shorter than 30
\* characters adds exactly one issue "Summary is too short", for kind
\* "recommendation" a present recommendation text shorter than 20
\* characters adds exactly one issue, and no other kind adds either; the
\* record {"summary": "short"} of kind "summary" gets that single issue and
\* the score 0.9.
C24_ContentLengthByKind ==
    (HeuristicDone /\ semArgs.structural_errors = <<>> /\ response.kind = "return")
    => LET data == semArgs.data
           kind == semArgs.validation_type
           issues == response.result.issues
           short(f, n) == f \in DOMAIN data /\ isinstance_str(data[f])
                          /\ Len(data[f].s) < n
           Occurrences(list, text) ==
               Cardinality({i \in 1..Len(list) : list[i] = Text(text, NoField)})
       IN /\ Occurrences(issues, "Summary is too short")
             = (IF kind = "summary" /\ short("summary", 30) THEN 1 ELSE 0)
          /\ Occurrences(issues, "Recommendation text is too short")
             = (IF kind = "recommendation" /\ short("recommendation_text", 20)
                THEN 1 ELSE 0)
          /\ (/\ data = [f \in {"summary"} |-> PyStr(ShortText)]
              /\ kind = "summary"
              /\ DOMAIN semArgs.schema \subseteq {"summary"})
             => /\ issues = <<Text("Summary is too short", NoField)>>
                /\ response.result.semantic_score = 9

\* the record {"summary": "short"} of kind "summary" has been judged
C24_Witness ==
    /\ HeuristicDone
    /\ semArgs.structural_errors = <<>>
    /\ semArgs.data = [f \in {"summary"} |-> PyStr(ShortText)]
    /\ semArgs.validation_type = "summary"
    /\ DOMAIN semArgs.schema = {"summary"}
    /\ response.kind = "return"
    /\ response.result.issues = <<Text("Summary is too short", NoField)>>
    /\ response.result.semantic_score = 9

RepoStep(method) == pc = "idle" /\ pc' = "done" /\ call'.ep = method

\* the metadata stored for a schema
StoredMetadata(st, name) == model_validate_json(st[name].metadata)

\* C27: create_schema for a name that exists fails, with ValueError in the
\* storage and HTTP 409 in the service, and leaves the stored metadata, the
\* version list and every stored version definition unchanged; for a new
\* name it stores version "1.0" and the version list ["1.0"].
C27_CreateConflictChangesNothing ==
    [][RepoStep("create_schema")
       => LET name == call'.name
          IN IF name \in DOMAIN storage
             THEN /\ outcome' = Raise("Schema with name already exists")
                  /\ response' = HttpError(409)
                  /\ storage' = storage
             ELSE /\ name \in DOMAIN storage'
                  /\ StoredMetadata(storage', name).versions = <<InitialVersion>>
                  /\ StoredMetadata(storage', name).current_version = InitialVersion
                  /\ DOMAIN storage'[name].versions = {InitialVersion}
                  /\ outcome'.kind = "return"
                  /\ outcome'.result.version = InitialVersion
                  /\ \A other \in DOMAIN storage : storage'[other] = storage[other]]_vars

\* a create refused for a schema that has two versions or more
C27_Witness ==
    /\ pc = "done"
    /\ call.ep = "create_schema"
    /\ response = HttpError(409)
    /\ call.name \in DOMAIN storage
    /\ Len(StoredMetadata(storage, call.name).versions) >= 2

\* C28: every successful update_schema on an existing schema creates a new
\* version: the version list grows by exactly one entry whose minor number
\* is one more than the current one, current_version becomes that entry,
\* and the version_notes of the body are stored with it; this for every
\* SchemaUpdate body, one that sets only version_notes included.
C28_UpdateCreatesVersion ==
    [][(RepoStep("update_schema") /\ outcome'.kind = "return")
       => LET name == call'.name
              before == StoredMetadata(storage, name)
              after == StoredMetadata(storage', name)
              new_version == NextVersion(before.current_version)
          IN /\ after.versions = Append(before.versions, new_version)
             /\ after.current_version = new_version
             /\ get_schema(storage', name, <<new_version>>).kind = "return"
             /\ get_schema(storage', name, <<new_version>>).result.version_notes
                = call'.update.version_notes]_vars

\* C29: over create and update, every version a schema lists stays
\* retrievable with get_schema(name, version) and keeps the definition it
\* had; what a create or an update stores is returned by get_schema exactly
\* as the operation returned it; an update leaves created_at as it was, in
\* the metadata and in the new version.
C29_VersionsAreImmutable ==
    [][(/\ RepoStep("create_schema") \/ RepoStep("update_schema")
        /\ outcome'.kind = "return")
       => LET name == call'.name
              written == outcome'.result
              listed(n) == StoredMetadata(storage, n).versions
          IN /\ \A n \in DOMAIN storage : \A i \in 1..Len(listed(n)) :
                   /\ get_schema(storage, n, <<listed(n)[i]>>).kind = "return"
                   /\ get_schema(storage', n, <<listed(n)[i]>>)
                      = get_schema(storage, n, <<listed(n)[i]>>)
             /\ get_schema(storage', name, <<written.version>>) = Return(written)
             /\ name \in DOMAIN storage
                => /\ StoredMetadata(storage', name).created_at
                      = StoredMetadata(storage, name).created_at
                   /\ written.created_at = StoredMetadata(storage, name).created_at]_vars

\* an update has stored a third version with notes, at a later instant than
\* the creation, and the first version still reads as it was created
C29_Witness ==
    /\ pc = "done"
    /\ call.ep = "update_schema"
    /\ outcome.kind = "return"
    /\ outcome.result.version = FormatVersion(1, 2)
    /\ outcome.result.version_notes # <<>>
    /\ outcome.result.updated_at > outcome.result.created_at
    /\ get_schema(storage, call.name, <<FormatVersion(1, 2)>>) = outcome
    /\ get_schema(storage, call.name, <<InitialVersion>>).kind = "return"
    /\ get_schema(storage, call.name, <<InitialVersion>>).result.description = "first"

\* C30: for every schema that exists, the version list has no duplicates,
\* current_version is its last element, every listed version has a stored
\* definition, get_schema without a version returns the definition of
\* current_version, and get_schema with a version that is not listed fails
\* with a does-not-exist error.
C30_RepositoryInvariant ==
    \A name \in DOMAIN storage :
       LET metadata == StoredMetadata(storage, name)
           versions == metadata.versions
       IN /\ \A i, j \in 1..Len(versions) : versions[i] = versions[j] => i = j
          /\ Len(versions) > 0
          /\ metadata.current_version = versions[Len(versions)]
          /\ \A v \in {versions[i] : i \in 1..Len(versions)} :
                /\ v \in DOMAIN storage[name].versions
                /\ get_schema(storage, name, <<v>>).kind = "return"
                /\ get_schema(storage, name, <<v>>).result.version = v
          /\ get_schema(storage, name, <<>>)
             = get_schema(storage, name, <<metadata.current_version>>)
          /\ \A version \in VersionSamples :
                (version # <<>> /\ \A i \in 1..Len(versions) : versions[i] # version[1])
                => get_schema(storage, name, version)
                   = Raise("Version does not exist for schema")

\* a schema with three versions has been asked for a version it does not
\* list
C30_Witness ==
    /\ pc = "done"
    /\ call.ep = "get_schema"
    /\ call.name \in DOMAIN storage
    /\ Len(StoredMetadata(storage, call.name).versions) = 3
    /\ call.version = <<FormatVersion(2, 0)>>
    /\ outcome = Raise("Version does not exist for schema")
    /\ response = HttpError(404)

====
